---- MODULE Spec2Model ----
(***************************************************************************)
(* Model of the document-splitter backend (src/app.py): five HTTP handlers *)
(* over an in-memory line array, a tokenizer, and a filesystem that only   *)
(* /export writes to.                                                      *)
(*                                                                         *)
(* Text is a sequence of symbols (one-character strings, plus EOT, which   *)
(* stands for the text of a cl100k_base special token).  A document is a   *)
(* sequence of such lines.  Python lists and strings are 0-based, TLA+     *)
(* sequences 1-based: Python's lines[k] is lines[k + 1] here.              *)
(***************************************************************************)
EXTENDS Integers, Sequences, FiniteSets, TLC

VARIABLES
    fs,     \* the filesystem: path -> directory (exists, files)
    exp,    \* the /export requests in flight, one per worker
    resp    \* the response of the single-step handler that last ran

vars == <<fs, exp, resp>>

\* ------------------------------------------------------------- bounds --

\* Longest document (number of lines) the requests carry.
MaxLines == 2

\* Longest section list an /export request carries.
MaxSections == 2

\* Longest search string and longest replacement string of /replace.
MaxPattern == 2

\* --------------------------------------------------------- primitives --

NL == "\n"
CR == "\r"
\* The text of a special token of the cl100k_base encoding.
EOT == "<|endoftext|>"

Min(a, b) == IF a < b THEN a ELSE b
Max(a, b) == IF a > b THEN a ELSE b

\* The sequences of at most n elements of S.
RECURSIVE SeqsOver(_, _)
SeqsOver(S, n) ==
    IF n = 0 THEN {<<>>}
    ELSE LET shorter == SeqsOver(S, n - 1)
         IN  shorter \cup {Append(q, x) : q \in shorter, x \in S}

\* Python's seq[a:b] for integers a, b: a negative index counts from the
\* end, and both ends are clamped to [0, len].
PySlice(s, a, b) ==
    LET n  == Len(s)
        lo == IF a < 0 THEN Max(n + a, 0) ELSE Min(a, n)
        hi == IF b < 0 THEN Max(n + b, 0) ELSE Min(b, n)
    IN  IF lo >= hi THEN <<>> ELSE SubSeq(s, lo + 1, hi)

\* Python's sep.join(parts) for a list of texts.
RECURSIVE Join(_, _)
Join(sep, parts) ==
    IF parts = <<>> THEN <<>>
    ELSE IF Len(parts) = 1 THEN parts[1]
    ELSE parts[1] \o sep \o Join(sep, Tail(parts))

\* '\n'.join(parts)
JoinNL(parts) == Join(<<NL>>, parts)

\* Python's text.startswith(pat, i) with i 0-based.
MatchAt(text, pat, i) ==
    /\ i + Len(pat) <= Len(text)
    /\ \A k \in 1..Len(pat) : text[i + k] = pat[k]

\* ---------------------------------------------------------- tokenizer --

\* tokenizer.encode raises ValueError on text that holds a special token
\* (disallowed_special defaults to "all").
TokenizerFaults(text) == \E k \in 1..Len(text) : text[k] = EOT

\* The number of tokens of text.  The byte-pair encoding itself is outside
\* the repository; the model keeps what the handlers rely on: the count is
\* a total, deterministic function of the exact text (every symbol counts,
\* the newline included), and two equal adjacent letters merge into one
\* token.
RECURSIVE TokenCount(_)
TokenCount(text) ==
    IF text = <<>> THEN 0
    ELSE IF Len(text) >= 2 /\ text[1] = text[2] /\ text[1] # NL
         THEN 1 + TokenCount(SubSeq(text, 3, Len(text)))
         ELSE 1 + TokenCount(Tail(text))

\* ---------------------------------------------------------- responses --

NoResp == [op |-> "none", req |-> <<>>, status |-> 0, body |-> <<>>]

Response(op, req, status, body) ==
    [op |-> op, req |-> req, status |-> status, body |-> body]

Error(msg) == [error |-> msg]

\* The handler has returned and the framework has sent the response.
Deliver ==
    /\ resp.op # "none"
    /\ resp' = NoResp
    /\ UNCHANGED <<fs, exp>>

\* ------------------------------------------------------------- GET / --

HealthCheck ==
    /\ resp.op = "none"
    /\ resp' = Response("health", <<>>, 200, [status |-> "ok"])
    /\ UNCHANGED <<fs, exp>>

\* ------------------------------------------------------- POST /upload --

\* Python's str.endswith
EndsWith(s, suffix) ==
    /\ Len(suffix) <= Len(s)
    /\ SubSeq(s, Len(s) - Len(suffix) + 1, Len(s)) = suffix

\* Python's str.splitlines over the boundaries "\n", "\r" and "\r\n": no
\* empty last line after a final boundary, and no line of an empty text.
RECURSIVE SplitLines(_)
SplitLines(text) ==
    IF text = <<>> THEN <<>>
    ELSE LET cuts == {k \in 1..Len(text) : text[k] \in {NL, CR}}
         IN  IF cuts = {} THEN <<text>>
             ELSE LET k    == CHOOSE c \in cuts : \A d \in cuts : c <= d
                      skip == IF /\ text[k] = CR
                                 /\ k < Len(text)
                                 /\ text[k + 1] = NL
                              THEN 2 ELSE 1
                  IN  <<SubSeq(text, 1, k - 1)>>
                        \o SplitLines(SubSeq(text, k + skip, Len(text)))

\* files: request.files, a dict that may hold "file", an upload with a
\* filename, its content as text, and whether its bytes decode as UTF-8.
UploadFile(files) ==
    /\ resp.op = "none"
    /\ resp' =
         IF "file" \notin DOMAIN files
         THEN Response("upload", files, 400, Error("No file part"))
         ELSE LET file == files["file"] IN
              IF file.filename = <<>>
              THEN Response("upload", files, 400, Error("No selected file"))
              ELSE IF ~EndsWith(file.filename, <<".txt">>)
              THEN Response("upload", files, 400,
                            Error("Only .txt files are allowed"))
              ELSE IF ~file.utf8
              THEN Response("upload", files, 500,
                            Error("'utf-8' codec can't decode"))
              ELSE Response("upload", files, 200,
                            [filename |-> file.filename,
                             lines |-> SplitLines(file.content)])
    /\ UNCHANGED <<fs, exp>>

\* ------------------------------------------------------- POST /tokens --

\* The validation without start <= end, as /export has it.
InvalidLineRangeNoOrder(lines, start, end) ==
    ~(0 <= start /\ end < Len(lines))

\* The validation of count_tokens: not (0 <= start <= end < len(lines)).
InvalidLineRange(lines, start, end) ==
    ~(0 <= start /\ start <= end /\ end < Len(lines))

\* The selection with the end line left out: lines[start:end].
SelectedTextExclusive(lines, start, end) ==
    JoinNL(PySlice(lines, start, end))

\* '\n'.join(lines[start:end + 1])
SelectedText(lines, start, end) ==
    JoinNL(PySlice(lines, start, end + 1))

\* data: the request's JSON object, a function from its keys.
CountTokens(data) ==
    /\ resp.op = "none"
    /\ resp' =
         IF DOMAIN data = {} \/ ~({"lines", "start", "end"} \subseteq DOMAIN data)
         THEN Response("tokens", data, 400, Error("Missing required fields"))
         ELSE LET lines == data["lines"]
                  start == data["start"]
                  end   == data["end"]
              IN
              IF InvalidLineRange(lines, start, end)
              THEN Response("tokens", data, 400, Error("Invalid line range"))
              ELSE LET selected_text == SelectedText(lines, start, end) IN
                   IF TokenizerFaults(selected_text)
                   THEN Response("tokens", data, 500,
                                 Error("disallowed special token"))
                   ELSE Response("tokens", data, 200,
                                 [token_count |-> TokenCount(selected_text),
                                  start_line |-> start,
                                  end_line |-> end])
    /\ UNCHANGED <<fs, exp>>

\* ------------------------------------------------------ POST /replace --

\* Python's str.replace(search, replace): the occurrences of search are
\* found left to right, each search resuming after the previous match; an
\* empty search matches before every symbol and at the end.
RECURSIVE ReplaceFrom(_, _, _, _)
ReplaceFrom(line, search, replace, i) ==
    IF search = <<>>
    THEN IF i >= Len(line) THEN replace
         ELSE replace \o <<line[i + 1]>>
                \o ReplaceFrom(line, search, replace, i + 1)
    ELSE IF i >= Len(line) THEN <<>>
    ELSE IF MatchAt(line, search, i)
         THEN replace \o ReplaceFrom(line, search, replace, i + Len(search))
         ELSE <<line[i + 1]>> \o ReplaceFrom(line, search, replace, i + 1)

\* line.replace(search, replace)
PyReplace(line, search, replace) == ReplaceFrom(line, search, replace, 0)

\* Python's str.count(search): the non-overlapping occurrences, counted
\* left to right; len + 1 for an empty search.
RECURSIVE CountFrom(_, _, _)
CountFrom(line, search, i) ==
    IF search = <<>> THEN Len(line) + 1 - i
    ELSE IF i >= Len(line) THEN 0
    ELSE IF MatchAt(line, search, i)
         THEN 1 + CountFrom(line, search, i + Len(search))
         ELSE CountFrom(line, search, i + 1)

\* A count of every occurrence, the overlapping ones too.
PyCountOverlapping(line, search) ==
    Cardinality({i \in 0..Len(line) : MatchAt(line, search, i)})

\* line.count(search)
PyCount(line, search) == CountFrom(line, search, 0)

RECURSIVE Sum(_)
Sum(ns) == IF ns = <<>> THEN 0 ELSE ns[1] + Sum(Tail(ns))

ReplaceText(data) ==
    /\ resp.op = "none"
    /\ resp' =
         IF DOMAIN data = {} \/ ~({"lines", "search", "replace"} \subseteq DOMAIN data)
         THEN Response("replace", data, 400, Error("Missing required fields"))
         ELSE LET lines   == data["lines"]
                  search  == data["search"]
                  replace == data["replace"]
                  replaced_lines ==
                      [k \in 1..Len(lines) |->
                          PyReplace(lines[k], search, replace)]
              IN  Response("replace", data, 200,
                           [lines |-> replaced_lines,
                            replacements |->
                                Sum([k \in 1..Len(lines) |->
                                        PyCount(lines[k], search)])])
    /\ UNCHANGED <<fs, exp>>

\* ------------------------------------------------------- filesystem --

\* The directories the model follows: UPLOAD_FOLDER, the default output
\* path of /export, and one other output path.
Paths == {"uploads", "output", "alt"}

\* The directory a path names, as the operating system resolves it for
\* os.makedirs and open: "./alt" is the directory "alt".
Resolve(path) == IF path = "./alt" THEN "alt" ELSE path

\* f'section_{i + 1}.txt', i the 0-based position of the section.
SectionFileName(i) == "section_" \o ToString(i + 1) \o ".txt"

\* The files of a directory the model follows: the ones /export names, and
\* one that is nobody's output.
FileNames ==
    {SectionFileName(i) : i \in 0..(MaxSections - 1)}
        \cup {"metadata.json", "notes.txt"}

NoFile == [exists |-> FALSE, data |-> <<>>]
File(data) == [exists |-> TRUE, data |-> data]

NoDir == [exists |-> FALSE, files |-> [f \in FileNames |-> NoFile]]
EmptyDir == [exists |-> TRUE, files |-> [f \in FileNames |-> NoFile]]

\* A write that leaves the file alone in its directory.
WriteFileAlone(dir, name, data) ==
    [EmptyDir EXCEPT !.files[name] = File(data)]

\* open(path, 'w') followed by a write: the file holds data, the rest of
\* the directory is as it was.
WriteFile(dir, name, data) ==
    [dir EXCEPT !.files[name] = File(data)]

\* ------------------------------------------------------- JSON values --

JObject(fields) == [type |-> "object", val |-> fields]
JInt(n) == [type |-> "int", val |-> n]
JString(s) == [type |-> "string", val |-> s]

\* A section that holds start and end only.
Section(start, end) == JObject([start |-> JInt(start), end |-> JInt(end)])

\* dict.get(key, default)
Get(dict, key, default) ==
    IF key \in DOMAIN dict THEN dict[key] ELSE default

\* ------------------------------------------------------- POST /export --

Idle ==
    [pc |-> "idle", data |-> <<>>, output_path |-> "", i |-> 0,
     exported_files |-> <<>>, status |-> 0, body |-> <<>>, pre |-> NoDir]

\* The handler returns: its response, and nothing more to run.
Return(e, status, body) ==
    [e EXCEPT !.pc = "done", !.status = status, !.body = body]

\* The validation with the end compared by > where the code has >=.
SectionErrorEndInclusive(section, lines) ==
    IF section.type # "object" THEN "Invalid section format"
    ELSE IF "start" \notin DOMAIN section.val \/ "end" \notin DOMAIN section.val
    THEN "Section missing start or end"
    ELSE IF section.val["start"].type # "int" \/ section.val["end"].type # "int"
    THEN "Section start and end must be integers"
    ELSE IF \/ section.val["start"].val < 0
            \/ section.val["end"].val > Len(lines)
    THEN "Section range " \o ToString(section.val["start"].val) \o "-"
            \o ToString(section.val["end"].val) \o " out of bounds"
    ELSE ""

\* The validation of one section: the error it is rejected with, "" when
\* it passes.
SectionError(section, lines) ==
    IF section.type # "object" THEN "Invalid section format"
    ELSE IF "start" \notin DOMAIN section.val \/ "end" \notin DOMAIN section.val
    THEN "Section missing start or end"
    ELSE IF section.val["start"].type # "int" \/ section.val["end"].type # "int"
    THEN "Section start and end must be integers"
    ELSE IF \/ section.val["start"].val < 0
            \/ section.val["end"].val >= Len(lines)
    THEN "Section range " \o ToString(section.val["start"].val) \o "-"
            \o ToString(section.val["end"].val) \o " out of bounds"
    ELSE ""

\* The request is read and its sections validated, in order, the first
\* violation ending the request.  A valid request goes on to create its
\* output directory; pre keeps what that directory held when the request
\* began.
ExportBegin(w, data) ==
    /\ exp[w].pc = "idle"
    /\ exp' = [exp EXCEPT ![w] =
         LET e == [exp[w] EXCEPT !.data = data] IN
         IF DOMAIN data = {} \/ ~({"sections", "lines"} \subseteq DOMAIN data)
         THEN Return(e, 400, Error("Missing required data"))
         ELSE LET sections == data["sections"]
                  lines    == data["lines"]
                  output_path == Get(data, "outputPath", "output")
                  bad == {k \in 1..Len(sections) :
                             SectionError(sections[k], lines) # ""}
              IN  IF bad # {}
                  THEN LET k == CHOOSE b \in bad : \A c \in bad : b <= c
                       IN  Return(e, 400,
                                  Error(SectionError(sections[k], lines)))
                  ELSE [e EXCEPT !.pc = "mkdir",
                                 !.output_path = output_path,
                                 !.pre = fs[Resolve(output_path)]]]
    /\ UNCHANGED <<fs, resp>>

\* A directory creation that empties the directory it finds.
MakeDirsFresh(dir) == EmptyDir

\* os.makedirs(output_path, exist_ok=True)
MakeDirs(dir) == [dir EXCEPT !.exists = TRUE]

ExportMakeDirs(w) ==
    /\ exp[w].pc = "mkdir"
    /\ \/ /\ fs' = [fs EXCEPT ![Resolve(exp[w].output_path)] = MakeDirs(@)]
          /\ exp' = [exp EXCEPT ![w].pc =
                        IF Len(exp[w].data["sections"]) = 0
                        THEN "meta" ELSE "write"]
       \/ \* makedirs raises
          /\ exp' = [exp EXCEPT ![w] = Return(@, 500,
                        Error("Failed to create output directory: OSError"))]
          /\ UNCHANGED fs
    /\ UNCHANGED resp

\* '\n'.join(lines[section['start']:section['end'] + 1])
SectionText(lines, section) ==
    JoinNL(PySlice(lines, section.val["start"].val,
                   section.val["end"].val + 1))

\* The text a write that failed part-way may have left in the file it
\* opened: any proper prefix of what it was writing, the empty one included.
Partial(text) == {SubSeq(text, 1, k) : k \in 0..(Len(text) - 1)} \cup {<<>>}

\* The message with the loop index itself.
WriteSectionErrorZeroBased(i) ==
    "Failed to write section " \o ToString(i) \o ": OSError"

\* f'Failed to write section {i + 1}: {str(e)}'
WriteSectionError(i) ==
    "Failed to write section " \o ToString(i + 1) \o ": OSError"

\* One turn of the section loop: section i is written to its own file.
ExportWriteSection(w) ==
    /\ exp[w].pc = "write"
    /\ LET e    == exp[w]
           i    == e.i
           path == Resolve(e.output_path)
           sections == e.data["sections"]
           section_text == SectionText(e.data["lines"], sections[i + 1])
           name == SectionFileName(i)
           failed == Return(e, 500, Error(WriteSectionError(i)))
       IN  \/ /\ fs' = [fs EXCEPT ![path] = WriteFile(@, name, section_text)]
              /\ exp' = [exp EXCEPT ![w] =
                    [e EXCEPT !.i = i + 1,
                              !.exported_files = Append(@, name),
                              !.pc = IF i + 1 = Len(sections)
                                     THEN "meta" ELSE "write"]]
           \/ \* open raises: the file stays as it was
              /\ exp' = [exp EXCEPT ![w] = failed]
              /\ UNCHANGED fs
           \/ \* open truncated the file, the write or the close raises
              /\ \E part \in Partial(section_text) :
                    fs' = [fs EXCEPT ![path] = WriteFile(@, name, part)]
              /\ exp' = [exp EXCEPT ![w] = failed]
    /\ UNCHANGED resp

\* The entry with the loop index as its index.
ManifestEntryZeroBased(i, section) ==
    [filename |-> SectionFileName(i),
     index |-> i,
     title |-> Get(section.val, "title", "Section " \o ToString(i + 1)),
     start_line |-> section.val["start"].val,
     end_line |-> section.val["end"].val,
     token_count |-> Get(section.val, "tokenCount", 0),
     should_summarize |-> Get(section.val, "shouldSummarize", TRUE)]

\* The manifest entry of the section at 0-based position i.
ManifestEntry(i, section) ==
    [filename |-> SectionFileName(i),
     index |-> i + 1,
     title |-> Get(section.val, "title", "Section " \o ToString(i + 1)),
     start_line |-> section.val["start"].val,
     end_line |-> section.val["end"].val,
     token_count |-> Get(section.val, "tokenCount", 0),
     should_summarize |-> Get(section.val, "shouldSummarize", TRUE)]

Metadata(sections) ==
    [sections |-> [k \in 1..Len(sections) |->
                      ManifestEntry(k - 1, sections[k])],
     total_sections |-> Len(sections)]

\* metadata.json is written and the handler answers.  The file holds one
\* JSON document, or nothing when the write failed after the open.
ExportWriteMetadata(w) ==
    /\ exp[w].pc = "meta"
    /\ LET e    == exp[w]
           path == Resolve(e.output_path)
           metadata == Metadata(e.data["sections"])
           failed == Return(e, 500,
                        Error("Failed to write metadata: OSError"))
       IN  \/ /\ fs' = [fs EXCEPT ![path] =
                          WriteFile(@, "metadata.json", <<metadata>>)]
              /\ exp' = [exp EXCEPT ![w] =
                    LET files == Append(e.exported_files, "metadata.json")
                    IN  Return([e EXCEPT !.exported_files = files], 200,
                               [message |-> "Export successful",
                                outputPath |-> e.output_path,
                                files |-> files])]
           \/ /\ exp' = [exp EXCEPT ![w] = failed]
              /\ UNCHANGED fs
           \/ /\ fs' = [fs EXCEPT ![path] =
                          WriteFile(@, "metadata.json", <<>>)]
              /\ exp' = [exp EXCEPT ![w] = failed]
    /\ UNCHANGED resp

\* -------------------------------------------------------------- start --

\* The two /export requests the model follows; worker 1 alone runs where
\* no concurrency is asked about.
Workers == {1, 2}

\* What an earlier run of the program left in the other directory: the
\* second section file and the manifest of an export of two sections (its
\* first section file has since been removed), beside a file that is no
\* export's.
LeftBehind ==
    WriteFile(
        WriteFile(
            WriteFile(EmptyDir, "notes.txt", <<"n">>),
            SectionFileName(1), <<"o">>),
        "metadata.json", <<Metadata(<<Section(0, 0), Section(1, 1)>>)>>)

\* The filesystem once the module is loaded: UPLOAD_FOLDER exists and is
\* empty, the default output directory does not exist yet, and the other
\* directory holds what was left behind.
InitFs ==
    [p \in Paths |->
        IF p = "uploads" THEN EmptyDir
        ELSE IF p = "output" THEN NoDir
        ELSE LeftBehind]

Init ==
    /\ fs = InitFs
    /\ exp = [w \in Workers |-> Idle]
    /\ resp = NoResp

\* ----------------------------------------------------- /export alone --

\* Line k of the documents exported: the first is empty, each later one a
\* symbol longer.
Line(k) == [j \in 1..(k - 1) |-> "a"]

ExportDocs == {[k \in 1..n |-> Line(k)] : n \in 0..MaxLines}

\* The sections tried: every start from one below the first line and every
\* end from two below it to one past the longest document; one section
\* carrying every optional field; and one of each malformed kind.
ExportSections ==
    {Section(s, e) : s \in (-1)..(MaxLines - 1), e \in (-2)..MaxLines}
      \cup {JObject([start |-> JInt(0), end |-> JInt(0), title |-> "Intro",
                     tokenCount |-> 7, shouldSummarize |-> FALSE])}
      \cup {JString("0-1"),
            JObject([start |-> JInt(0)]),
            JObject([start |-> JString("0"), end |-> JInt(0)])}

\* A request body with lines and sections, to the default output path or
\* to the directory that holds earlier files.
ExportRequest(d, ss, default) ==
    IF default THEN [lines |-> d, sections |-> ss]
               ELSE [lines |-> d, sections |-> ss, outputPath |-> "alt"]

\* Every list of up to MaxSections sections.
SectionLists == SeqsOver(ExportSections, MaxSections)

\* Bodies that lack a field, and the missing body.
MalformedExportRequests == {[lines |-> <<>>], <<>>}

\* One /export call on every document with every list of sections.
NextExport ==
    \/ /\ exp[1].pc = "idle"
       /\ \/ \E d \in ExportDocs, ss \in SectionLists, default \in BOOLEAN :
                ExportBegin(1, ExportRequest(d, ss, default))
          \/ \E data \in MalformedExportRequests : ExportBegin(1, data)
    \/ ExportMakeDirs(1)
    \/ ExportWriteSection(1)
    \/ ExportWriteMetadata(1)

SpecExport == Init /\ [][NextExport]_vars

\* ------------------------------------------- properties of one /export --

\* Python's text.split('\n'): one piece more than there are newlines.
RECURSIVE SplitNL(_)
SplitNL(text) ==
    LET cuts == {k \in 1..Len(text) : text[k] = NL}
    IN  IF cuts = {} THEN <<text>>
        ELSE LET k == CHOOSE c \in cuts : \A d \in cuts : c <= d
             IN  <<SubSeq(text, 1, k - 1)>>
                   \o SplitNL(SubSeq(text, k + 1, Len(text)))

\* The lines start..end of a document, both inclusive (0-based), as the
\* specification means a section: nothing when end < start.
InclusiveLines(lines, start, end) ==
    [k \in 1..(end - start + 1) |-> lines[start + k]]

HasFields(e) ==
    /\ e.pc # "idle"
    /\ {"sections", "lines"} \subseteq DOMAIN e.data

WellFormed(section) ==
    /\ section.type = "object"
    /\ {"start", "end"} \subseteq DOMAIN section.val
    /\ section.val["start"].type = "int"
    /\ section.val["end"].type = "int"

StartOf(section) == section.val["start"].val
EndOf(section) == section.val["end"].val

OutOfBounds(section, lines) ==
    /\ WellFormed(section)
    /\ StartOf(section) < 0 \/ EndOf(section) >= Len(lines)

ValidRange(section, lines) ==
    /\ WellFormed(section)
    /\ 0 <= StartOf(section)
    /\ StartOf(section) <= EndOf(section)
    /\ EndOf(section) < Len(lines)

RangeMessage(section) ==
    "Section range " \o ToString(StartOf(section)) \o "-"
        \o ToString(EndOf(section)) \o " out of bounds"

FormatMessages ==
    {"Invalid section format", "Section missing start or end",
     "Section start and end must be integers"}

NameOfSection(j) == "section_" \o ToString(j) \o ".txt"

\* C3 as stated: whenever some section of the request is out of bounds,
\* the request is answered 400 with a message naming that section's range,
\* and the filesystem is what it was before the call.
C3_AnyOffenderNamed ==
    LET e == exp[1] IN
    HasFields(e) =>
        \A k \in 1..Len(e.data["sections"]) :
            OutOfBounds(e.data["sections"][k], e.data["lines"]) =>
                /\ e.pc = "done"
                /\ e.status = 400
                /\ e.body.error = RangeMessage(e.data["sections"][k])
                /\ fs = InitFs

\* C3 as amended: whenever some section of the request is out of bounds,
\* the request is answered 400 and the filesystem is what it was before the
\* call, wherever the section stands; the message is that of the first
\* section, in list order, that fails validation: its start-end range when
\* that section is a record with integer start and end, a format message
\* otherwise.
C3_RejectedBeforeOutput ==
    LET e == exp[1] IN
    HasFields(e) =>
        LET sections == e.data["sections"]
            lines    == e.data["lines"]
            failing  == {k \in 1..Len(sections) :
                            \/ ~WellFormed(sections[k])
                            \/ OutOfBounds(sections[k], lines)}
        IN  (\E k \in 1..Len(sections) : OutOfBounds(sections[k], lines)) =>
                /\ e.pc = "done"
                /\ e.status = 400
                /\ fs = InitFs
                /\ LET first == CHOOSE k \in failing :
                                    \A j \in failing : k <= j
                   IN  IF WellFormed(sections[first])
                       THEN e.body.error = RangeMessage(sections[first])
                       ELSE e.body.error \in FormatMessages

\* C3's case: the only offending section is the second of two, and the
\* answer names its range.
C3_Witness ==
    LET e == exp[1] IN
    /\ HasFields(e)
    /\ Len(e.data["sections"]) = 2
    /\ ValidRange(e.data["sections"][1], e.data["lines"])
    /\ OutOfBounds(e.data["sections"][2], e.data["lines"])
    /\ EndOf(e.data["sections"][2]) >= Len(e.data["lines"])
    /\ e.status = 400
    /\ e.body.error = RangeMessage(e.data["sections"][2])
    /\ fs = InitFs

\* C4 as stated: an /export that is answered with success exported only
\* sections with 0 <= start <= end < len(lines); a request holding any
\* other section is a client error.
C4_OnlyValidRangesExported ==
    LET e == exp[1] IN
    (HasFields(e) /\ e.status = 200) =>
        \A k \in 1..Len(e.data["sections"]) :
            ValidRange(e.data["sections"][k], e.data["lines"])

\* C5 as stated: after a successful /export, section_i.txt holds the lines
\* start..end (inclusive) of section i joined by newline, and splitting
\* the file on newline gives those lines back.
C5_RoundTrip ==
    LET e == exp[1] IN
    (HasFields(e) /\ e.status = 200) =>
        \A k \in 1..Len(e.data["sections"]) :
            LET section == e.data["sections"][k]
                slice == InclusiveLines(e.data["lines"], StartOf(section),
                                        EndOf(section))
                file == fs[Resolve(e.output_path)].files[NameOfSection(k)]
            IN  /\ file.exists
                /\ file.data = JoinNL(slice)
                /\ SplitNL(file.data) = slice

\* C5 where every section has 0 <= start <= end < len(lines): there the
\* round trip holds, sections overlapping or repeated included.
C5_RoundTripOfValidRanges ==
    LET e == exp[1] IN
    (/\ HasFields(e)
     /\ e.status = 200
     /\ \A k \in 1..Len(e.data["sections"]) :
           ValidRange(e.data["sections"][k], e.data["lines"]))
        => C5_RoundTrip

\* C6: after a successful /export of n sections, metadata.json holds n
\* entries in input order and total_sections = n; the entry at 0-based
\* position i has index i + 1, filename section_{i+1}.txt and the start and
\* end of input section i; the filenames are pairwise distinct; and the
\* response lists section_1.txt..section_n.txt, then metadata.json.
C6_ManifestFollowsInput ==
    LET e == exp[1] IN
    (HasFields(e) /\ e.status = 200) =>
        LET sections == e.data["sections"]
            n == Len(sections)
            file == fs[Resolve(e.output_path)].files["metadata.json"]
        IN  /\ file.exists
            /\ Len(file.data) = 1
            /\ LET entries == file.data[1].sections IN
               /\ Len(entries) = n
               /\ file.data[1].total_sections = n
               /\ \A k \in 1..n :
                    /\ entries[k].index = k
                    /\ entries[k].filename = NameOfSection(k)
                    /\ entries[k].start_line = StartOf(sections[k])
                    /\ entries[k].end_line = EndOf(sections[k])
               /\ \A j, k \in 1..n :
                    j # k => entries[j].filename # entries[k].filename
            /\ e.body.files =
                 [k \in 1..(n + 1) |->
                     IF k <= n THEN NameOfSection(k) ELSE "metadata.json"]

\* C6's case: two sections exported, the first one titled.
C6_Witness ==
    LET e == exp[1] IN
    /\ HasFields(e)
    /\ e.status = 200
    /\ Len(e.data["sections"]) = 2
    /\ "title" \in DOMAIN e.data["sections"][1].val
    /\ fs[Resolve(e.output_path)].files["metadata.json"].data[1].total_sections = 2

\* C8: a validated /export that fails answers 500 naming the step, and
\* nothing is rolled back.  Directory creation failed: nothing is written.
\* Section k failed: the files of sections 1..k-1 hold this call's text,
\* those of the later sections and metadata.json are as the call found
\* them.  The metadata write failed: all n section files hold this call's
\* text.  And success is answered only with all n section files and
\* metadata.json written.
C8_NoRollback ==
    LET e == exp[1] IN
    (HasFields(e) /\ e.pc = "done" /\ e.status # 400) =>
        LET sections == e.data["sections"]
            n == Len(sections)
            dir == fs[Resolve(e.output_path)]
            written(j) ==
                dir.files[NameOfSection(j)] =
                    File(JoinNL(PySlice(e.data["lines"],
                                        StartOf(sections[j]),
                                        EndOf(sections[j]) + 1)))
            untouched(name) == dir.files[name] = e.pre.files[name]
            k == Len(e.exported_files) + 1
        IN  /\ e.status \in {200, 500}
            /\ e.status = 500 =>
                 \/ /\ e.body.error =
                         "Failed to create output directory: OSError"
                    /\ fs = InitFs
                 \/ /\ k <= n
                    /\ e.body.error =
                         "Failed to write section " \o ToString(k)
                             \o ": OSError"
                    /\ \A j \in 1..(k - 1) : written(j)
                    /\ \A j \in (k + 1)..MaxSections :
                          untouched(NameOfSection(j))
                    /\ untouched("metadata.json")
                 \/ /\ k = n + 1
                    /\ e.body.error = "Failed to write metadata: OSError"
                    /\ \A j \in 1..n : written(j)
            /\ e.status = 200 =>
                 /\ \A j \in 1..n : written(j)
                 /\ dir.files["metadata.json"].exists
                 /\ Len(dir.files["metadata.json"].data) = 1

\* C8's case: the write of the second of two sections failed, and the
\* first section's file is on disk.
C8_Witness ==
    LET e == exp[1] IN
    /\ HasFields(e)
    /\ e.status = 500
    /\ Len(e.data["sections"]) = 2
    /\ e.body.error = "Failed to write section 2: OSError"
    /\ fs[Resolve(e.output_path)].files["section_1.txt"].exists
    /\ ~fs[Resolve(e.output_path)].files["metadata.json"].exists

\* ------------------------------------------------------ /tokens alone --

TokenLines == {<<>>, <<"a">>, <<"a", "a">>, <<EOT>>}

\* Every document of up to MaxLines of these lines, with every start and
\* end from one below the first line to one past the longest document; and
\* requests that lack a field.
TokenRequests ==
    {[lines |-> d, start |-> s, end |-> e] :
        d \in SeqsOver(TokenLines, MaxLines),
        s \in (-1)..MaxLines, e \in (-1)..MaxLines}
      \cup {[lines |-> <<>>, start |-> 0], [start |-> 0, end |-> 0]}

NextTokens ==
    \/ /\ resp.op = "none"
       /\ \E data \in TokenRequests : CountTokens(data)
    \/ HealthCheck
    \/ Deliver

SpecTokens == Init /\ [][NextTokens]_vars

CarriesRange ==
    /\ resp.op = "tokens"
    /\ {"lines", "start", "end"} \subseteq DOMAIN resp.req

\* Some line among start..end holds a special token.
SpecialInRange(lines, start, end) ==
    \E k \in start..end : \E j \in 1..Len(lines[k + 1]) : lines[k + 1][j] = EOT

\* C1 as stated: a /tokens request carrying lines, start and end is
\* answered 400 "Invalid line range" whenever start > end, start < 0 or
\* end >= len(lines), is answered 200 only when 0 <= start <= end <
\* len(lines), and is never answered with anything but 200 or 400.
C1_Only200Or400 ==
    CarriesRange =>
        LET lines == resp.req["lines"]
            start == resp.req["start"]
            end   == resp.req["end"]
        IN  /\ (start > end \/ start < 0 \/ end >= Len(lines)) =>
                  /\ resp.status = 400
                  /\ resp.body.error = "Invalid line range"
            /\ resp.status = 200 =>
                  (0 <= start /\ start <= end /\ end < Len(lines))
            /\ resp.status \in {200, 400}

\* C1 as amended: a /tokens request carrying lines, start and end is
\* answered 400 "Invalid line range" whenever start > end, start < 0 or
\* end >= len(lines), and 200 only when 0 <= start <= end < len(lines); a
\* request with such a range is answered 200, or 500 when the tokenizer
\* raises on the selected text, and nothing else.
C1_RangeValidated ==
    CarriesRange =>
        LET lines == resp.req["lines"]
            start == resp.req["start"]
            end   == resp.req["end"]
        IN  /\ (start > end \/ start < 0 \/ end >= Len(lines)) =>
                  /\ resp.status = 400
                  /\ resp.body.error = "Invalid line range"
            /\ resp.status = 200 =>
                  (0 <= start /\ start <= end /\ end < Len(lines))
            /\ (0 <= start /\ start <= end /\ end < Len(lines)) =>
                  resp.status =
                      IF SpecialInRange(lines, start, end) THEN 500 ELSE 200

\* C1's case: a reversed range inside the document is rejected.
C1_Witness ==
    /\ CarriesRange
    /\ 0 <= resp.req["end"]
    /\ resp.req["end"] < resp.req["start"]
    /\ resp.req["start"] < Len(resp.req["lines"])
    /\ resp.status = 400
    /\ resp.body.error = "Invalid line range"

\* C2 as stated: for every lines and 0 <= start <= end < len(lines),
\* /tokens answers with the tokenizer's count of the lines start..end
\* (inclusive, in order, unmodified) joined by newline and echoes start and
\* end.
C2_CountForEveryDocument ==
    CarriesRange =>
        LET lines == resp.req["lines"]
            start == resp.req["start"]
            end   == resp.req["end"]
        IN  (0 <= start /\ start <= end /\ end < Len(lines)) =>
                /\ resp.status = 200
                /\ resp.body.token_count =
                     TokenCount(JoinNL(InclusiveLines(lines, start, end)))
                /\ resp.body.start_line = start
                /\ resp.body.end_line = end

\* C2 as amended: for 0 <= start <= end < len(lines), where the tokenizer
\* returns a count for the selected text, /tokens answers with the
\* tokenizer's count of the lines start..end (inclusive, in order,
\* unmodified) joined by newline and echoes start and end; the answer is
\* this function of the request in every state, whatever was requested
\* before.
C2_CountOfSelectedLines ==
    CarriesRange =>
        LET lines == resp.req["lines"]
            start == resp.req["start"]
            end   == resp.req["end"]
        IN  (/\ 0 <= start /\ start <= end /\ end < Len(lines)
             /\ ~SpecialInRange(lines, start, end)) =>
                /\ resp.status = 200
                /\ resp.body.token_count =
                     TokenCount(JoinNL(InclusiveLines(lines, start, end)))
                /\ resp.body.token_count >= 0
                /\ resp.body.start_line = start
                /\ resp.body.end_line = end

\* C2's case: two lines are selected and counted with the newline between
\* them.
C2_Witness ==
    /\ CarriesRange
    /\ resp.status = 200
    /\ resp.req["lines"] = <<<<"a", "a">>, <<"a">>>>
    /\ resp.req["start"] = 0
    /\ resp.req["end"] = 1
    /\ resp.body.token_count = 3

\* ----------------------------------------------------- /replace alone --

ReplaceLines ==
    {<<>>, <<"a", "a", "a">>, <<"a", "b", "a">>, <<"b", "a", "a", "b">>}

ReplaceRequests ==
    {[lines |-> d, search |-> s, replace |-> r] :
        d \in SeqsOver(ReplaceLines, MaxLines),
        s \in SeqsOver({"a", "b"}, MaxPattern),
        r \in SeqsOver({"a", "b"}, MaxPattern)}
      \cup {[lines |-> <<>>, search |-> <<"a">>]}

NextReplace ==
    \/ /\ resp.op = "none"
       /\ \E data \in ReplaceRequests : ReplaceText(data)
    \/ Deliver

SpecReplace == Init /\ [][NextReplace]_vars

\* The 0-based positions where search occurs in line.
Occurrences(line, search) ==
    {p \in 0..(Len(line) - Len(search)) :
        \A k \in 1..Len(search) : line[p + k] = search[k]}

\* The non-overlapping occurrences taken left to right: an occurrence is
\* taken exactly when no taken occurrence before it reaches into it.
Taken(line, search) ==
    LET occ == Occurrences(line, search)
    IN  CHOOSE S \in SUBSET occ :
            \A p \in occ :
                p \in S <=> ~\E q \in S : q < p /\ p < q + Len(search)

\* line with the taken occurrences replaced, built position by position
\* from p on.
RECURSIVE Replaced(_, _, _, _, _)
Replaced(line, search, replace, S, p) ==
    IF p > Len(line) THEN <<>>
    ELSE (IF p \in S THEN replace ELSE <<>>)
           \o (IF /\ p < Len(line)
                  /\ ~\E q \in S : q <= p /\ p < q + Len(search)
               THEN <<line[p + 1]>> ELSE <<>>)
           \o Replaced(line, search, replace, S, p + 1)

CarriesReplace ==
    /\ resp.op = "replace"
    /\ {"lines", "search", "replace"} \subseteq DOMAIN resp.req

\* C7: /replace returns as many lines as it was given, in order, each the
\* input line with its non-overlapping left-to-right occurrences of the
\* search string replaced; replacements is the number of those occurrences
\* in the original lines, which is the number of replacements performed
\* (each changes the length by len(replace) - len(search)), also when the
\* replacement holds the search string or is empty.
C7_ReplaceAndCount ==
    CarriesReplace =>
        LET lines   == resp.req["lines"]
            search  == resp.req["search"]
            replace == resp.req["replace"]
            out     == resp.body.lines
        IN  /\ resp.status = 200
            /\ Len(out) = Len(lines)
            /\ \A k \in 1..Len(lines) :
                 LET S == Taken(lines[k], search) IN
                 /\ out[k] = Replaced(lines[k], search, replace, S, 0)
                 /\ Len(out[k]) = Len(lines[k])
                      + Cardinality(S) * (Len(replace) - Len(search))
            /\ resp.body.replacements =
                 Sum([k \in 1..Len(lines) |->
                         Cardinality(Taken(lines[k], search))])

\* C7's case: overlapping occurrences ("aa" in "aaa") in one line and two
\* occurrences in another, replaced by a string holding the search string.
C7_Witness ==
    /\ CarriesReplace
    /\ resp.req["lines"] = <<<<"a", "a", "a">>, <<"b", "a", "a", "b">>>>
    /\ resp.req["search"] = <<"a", "a">>
    /\ resp.req["replace"] = <<"a", "a">>
    /\ resp.body.replacements = 2
    /\ resp.body.lines = resp.req["lines"]

\* -------------------------------------------------- the whole service --

\* The document each of the two concurrent /export requests carries: the
\* text of a file tells which request wrote it.
DocOf(w) ==
    IF w = 1 THEN <<<<"a">>, <<"a", "a">>>> ELSE <<<<"b">>, <<"b", "b">>>>

\* Each request exports one section or two, to the default output path or
\* to the other directory, which it names in one of two ways.
ServiceExportRequests(w) ==
    LET lists == {<<Section(0, 0)>>, <<Section(0, 1), Section(1, 1)>>}
    IN  {[lines |-> DocOf(w), sections |-> ss] : ss \in lists}
          \cup {[lines |-> DocOf(w), sections |-> ss, outputPath |-> path] :
                   ss \in lists, path \in {"alt", "./alt"}}

ServiceUploads ==
    {<<>>,
     [file |-> [filename |-> <<>>, content |-> <<>>, utf8 |-> TRUE]],
     [file |-> [filename |-> <<"doc", ".pdf">>, content |-> <<"a">>,
                utf8 |-> TRUE]],
     [file |-> [filename |-> <<"doc", ".txt">>, content |-> <<"a">>,
                utf8 |-> FALSE]],
     [file |-> [filename |-> <<"doc", ".txt">>,
                content |-> <<"a", CR, NL, NL, "b", CR, "a", NL>>,
                utf8 |-> TRUE]]}

ServiceTokenRequests ==
    {[lines |-> DocOf(1), start |-> 0, end |-> 1],
     [lines |-> DocOf(1), start |-> 1, end |-> 0]}

ServiceReplaceRequests ==
    {[lines |-> DocOf(1), search |-> <<"a">>, replace |-> <<NL>>]}

ExportStep(w) ==
    \/ /\ exp[w].pc = "idle"
       /\ \E data \in ServiceExportRequests(w) : ExportBegin(w, data)
    \/ ExportMakeDirs(w)
    \/ ExportWriteSection(w)
    \/ ExportWriteMetadata(w)

Next ==
    \/ \E w \in Workers : ExportStep(w)
    \/ HealthCheck
    \/ /\ resp.op = "none"
       /\ \E files \in ServiceUploads : UploadFile(files)
    \/ /\ resp.op = "none"
       /\ \E data \in ServiceTokenRequests : CountTokens(data)
    \/ /\ resp.op = "none"
       /\ \E data \in ServiceReplaceRequests : ReplaceText(data)
    \/ Deliver

Spec == Init /\ [][Next]_vars

\* ------------------------------------------ properties of the service --

Succeeded(e) == e.pc = "done" /\ e.status = 200

\* The files an /export call names: its n section files and metadata.json.
OwnFiles(e) ==
    {NameOfSection(j) : j \in 1..Len(e.data["sections"])}
        \cup {"metadata.json"}

\* What the directory of a successful call holds when the call ran alone:
\* what the call found there, with its own files written over it.
AloneResult(e) ==
    LET sections == e.data["sections"]
    IN  [exists |-> TRUE,
         files |-> [f \in FileNames |->
            IF f = "metadata.json" THEN File(<<Metadata(sections)>>)
            ELSE IF \E j \in 1..Len(sections) : f = NameOfSection(j)
            THEN LET j == CHOOSE j \in 1..Len(sections) : f = NameOfSection(j)
                 IN  File(JoinNL(InclusiveLines(e.data["lines"],
                                                StartOf(sections[j]),
                                                EndOf(sections[j]))))
            ELSE e.pre.files[f]]]

\* C9 as stated, second half: a successful /export whose output path
\* differs from that of the other request leaves its directory exactly as
\* it would running alone.
C9_DifferentPathsIsolated ==
    \A w \in Workers :
        (/\ Succeeded(exp[w])
         /\ \A v \in Workers \ {w} :
               exp[v].output_path # exp[w].output_path)
            => fs[Resolve(exp[w].output_path)] = AloneResult(exp[w])

\* C9, second half, of directories: a successful /export whose output path
\* names a directory that the other request's output path does not name
\* leaves that directory exactly as it would running alone, however the
\* other request's steps interleave with its own.  (The first half, that
\* requests sharing a path do mix their files, is the reachability of
\* C9_Witness.)
C9_OtherDirectoriesIsolated ==
    \A w \in Workers :
        (/\ Succeeded(exp[w])
         /\ \A v \in Workers \ {w} :
               Resolve(exp[v].output_path) # Resolve(exp[w].output_path))
            => fs[Resolve(exp[w].output_path)] = AloneResult(exp[w])

\* C9's case: both requests wrote to one path and both were answered with
\* success; section_1.txt holds the text of one request, section_2.txt and
\* metadata.json are the other's, so the manifest describes a file that
\* another request wrote.
C9_Witness ==
    \E w, v \in Workers :
        /\ w # v
        /\ Succeeded(exp[w])
        /\ Succeeded(exp[v])
        /\ exp[w].output_path = exp[v].output_path
        /\ LET dir == fs[Resolve(exp[w].output_path)] IN
           /\ dir.files["section_1.txt"] =
                 File(SectionText(exp[w].data["lines"],
                                  exp[w].data["sections"][1]))
           /\ Len(exp[v].data["sections"]) = 2
           /\ dir.files["section_2.txt"] =
                 File(SectionText(exp[v].data["lines"],
                                  exp[v].data["sections"][2]))
           /\ dir.files["metadata.json"] =
                 File(<<Metadata(exp[v].data["sections"])>>)
           /\ dir.files["section_1.txt"] #
                 File(SectionText(exp[v].data["lines"],
                                  exp[v].data["sections"][1]))

\* One step keeps the frame: no directory and no file disappears; a file
\* changes only by the write step of an /export call in whose output path
\* it lies and which names it; a directory appears only by the makedirs of
\* a call with that output path; and a step of the health, upload, tokens
\* or replace handler changes no file at all.
FrameStep ==
    /\ \A p \in Paths :
        /\ fs[p].exists => fs'[p].exists
        /\ fs'[p].exists # fs[p].exists =>
              \E w \in Workers :
                  /\ exp[w].pc = "mkdir"
                  /\ Resolve(exp[w].output_path) = p
                  /\ exp'[w] # exp[w]
        /\ \A f \in FileNames :
              /\ fs[p].files[f].exists => fs'[p].files[f].exists
              /\ fs'[p].files[f] # fs[p].files[f] =>
                    \E w \in Workers :
                        /\ exp[w].pc \in {"write", "meta"}
                        /\ Resolve(exp[w].output_path) = p
                        /\ f \in OwnFiles(exp[w])
                        /\ exp'[w] # exp[w]
    /\ resp' # resp => fs' = fs

\* A successful export of n sections that began after a successful export
\* of m > n sections to the same path had finished: the files of sections
\* n+1..m are those of the first export, and metadata.json counts n.
StaleSectionsRemain ==
    \A w, v \in Workers :
        (/\ w # v
         /\ Succeeded(exp[w])
         /\ Succeeded(exp[v])
         /\ exp[w].output_path = exp[v].output_path
         /\ exp[v].pre.files["metadata.json"] =
               File(<<Metadata(exp[w].data["sections"])>>)
         /\ Len(exp[v].data["sections"]) < Len(exp[w].data["sections"]))
            => LET dir == fs[Resolve(exp[v].output_path)] IN
               /\ \A j \in (Len(exp[v].data["sections"]) + 1)
                               ..Len(exp[w].data["sections"]) :
                     dir.files[NameOfSection(j)] =
                        File(SectionText(exp[w].data["lines"],
                                         exp[w].data["sections"][j]))
               /\ dir.files["metadata.json"].data[1].total_sections =
                     Len(exp[v].data["sections"])

\* C10: an /export call only creates or overwrites its own section files
\* and metadata.json inside its output path and deletes or alters nothing
\* else, so the later section files of an earlier, longer export to the
\* same path stay while metadata.json counts the shorter one; and the
\* health, upload, tokens and replace handlers leave the filesystem as it
\* is.
C10_Frame == []StaleSectionsRemain /\ [][FrameStep]_vars

\* C10's case: two sections were exported to the directory that held
\* notes.txt, then one section to the same path; section_2.txt is still
\* the first export's, metadata.json counts one section, notes.txt is
\* untouched.
C10_Witness ==
    /\ Succeeded(exp[1])
    /\ Succeeded(exp[2])
    /\ exp[1].output_path = "alt"
    /\ exp[2].output_path = "alt"
    /\ Len(exp[1].data["sections"]) = 2
    /\ Len(exp[2].data["sections"]) = 1
    /\ exp[2].pre.files["metadata.json"] =
          File(<<Metadata(exp[1].data["sections"])>>)
    /\ fs["alt"].files["section_1.txt"] = File(<<"b">>)
    /\ fs["alt"].files["section_2.txt"] = File(<<"a", "a">>)
    /\ fs["alt"].files["metadata.json"].data[1].total_sections = 1
    /\ fs["alt"].files["notes.txt"] = InitFs["alt"].files["notes.txt"]

====
